---------------------------- MODULE Spec2Model ----------------------------
(***************************************************************************)
(* The five example federates of the co-simulation repository:            *)
(*   Capacitor, Inductor          examples/lc-tank/cpp                     *)
(*   PfLeft                       examples/pf-cosim/gpk/gpk-left-fed.cpp   *)
(*   Gpk3                         examples/2bus-13bus/gpk-left-fed.cpp     *)
(*   Gridpack                     examples/simple-cosim                    *)
(* Each federate is one sequential main(): a prologue (enter executing     *)
(* mode, initial publishes), a stepping loop and an epilogue (finalize,    *)
(* return).  The message substrate (HELICS) and the power-flow solver      *)
(* (GridPACK PFApp) are the environment: they answer the calls the         *)
(* programs make.  Spec runs one federate against an arbitrary             *)
(* environment; PairSpec runs Capacitor and Inductor together, with the    *)
(* substrate carrying their messages and ordering their time grants.       *)
(*                                                                         *)
(* Time is counted in ticks of half a period, so that the substrate can    *)
(* grant a time strictly between the current time and the requested one.   *)
(*                                                                         *)
(* Real numbers of the lc-tank federates are kept exactly, as polynomials  *)
(* in kappa = tick / c_value (= tick / l_value): the sequence              *)
(* <<a0, a1, ...>> stands for a0 + a1*kappa + a2*kappa^2 + ...; the        *)
(* sequence has no trailing zero.  Rounding of double arithmetic is not    *)
(* modelled.                                                               *)
(*                                                                         *)
(* Complex numbers of the solver federates are kept exactly, as records    *)
(* [re, im, mul, den, rot] standing for                                    *)
(*   (re + j*im) * mul / den * r120^rot.                                   *)
(***************************************************************************)
EXTENDS Integers, Sequences, FiniteSets, TLC

(***************************************************************************)
(* Bounds of the model.                                                    *)
(***************************************************************************)
\* The horizon (total_interval = 10.0), counted in nominal periods.
NSteps == 2

\* How many irregular answers the environment may give in one run: a grant
\* that differs from the requested time (a shortened step, a zero-progress
\* step) or a solve that does not converge.
MaxIrregular == 2

(***************************************************************************)
(* Program constants.                                                      *)
(***************************************************************************)
\* double period: the nominal step, in ticks.
Period == 2

\* double total_interval: the horizon, in ticks.
total_interval == NSteps * Period

\* for (int t = 0; t < 10; ++t): the step count of gridpack_federate, one
\* step per period up to the same horizon.
GridpackSteps == NSteps

Capacitor == "Capacitor"
Inductor == "Inductor"
PfLeft == "PfLeft"
Gpk3 == "Gpk3"
Gridpack == "Gridpack"

Programs == {Capacitor, Inductor, PfLeft, Gpk3, Gridpack}

\* The two explicit-Euler federates.
Integrators == {Capacitor, Inductor}

\* The federates that keep the granted time in grantedtime.
Clocked == {Capacitor, Inductor, PfLeft, Gpk3}

(***************************************************************************)
(* Exact reals: polynomials in kappa.                                      *)
(***************************************************************************)
RECURSIVE PolyNorm(_)
PolyNorm(p) ==
  IF p = <<>> THEN <<>>
  ELSE IF p[Len(p)] = 0 THEN PolyNorm(SubSeq(p, 1, Len(p) - 1))
  ELSE p

PolyCoef(p, i) == IF i <= Len(p) THEN p[i] ELSE 0

PolyMax(a, b) == IF a >= b THEN a ELSE b

PolyAdd(p, q) ==
  PolyNorm([i \in 1..PolyMax(Len(p), Len(q)) |-> PolyCoef(p, i) + PolyCoef(q, i)])

PolyScale(p, k) == PolyNorm([i \in 1..Len(p) |-> k * p[i]])

\* Multiplication by kappa.
PolyShift(p) == IF p = <<>> THEN <<>> ELSE <<0>> \o p

PolyZero == <<>>
PolyOne == <<1>>

(***************************************************************************)
(* Exact complex numbers.                                                  *)
(***************************************************************************)
Cplx(re, im, den) == [re |-> re, im |-> im, mul |-> 1, den |-> den, rot |-> 0]

\* c * (num / den)
CMul(c, num, den) == [c EXCEPT !.mul = @ * num, !.den = @ * den]

\* c / d
CDiv(c, d) == [c EXCEPT !.den = @ * d]

\* c * r120^n
CRot(c, n) == [c EXCEPT !.rot = @ + n]


(***************************************************************************)
(* The programs as data: local variables, prologue, loop body.             *)
(***************************************************************************)
\* The local variables of main() as they stand when the loop is reached.
Locals(p) ==
  CASE p = Capacitor ->
         [grantedtime |-> 0, inductor_current |-> PolyZero, delta_v |-> PolyZero,
          time_sim |-> <<0>>, voltage |-> <<PolyZero>>]
    [] p = Inductor ->
         [grantedtime |-> 0, capacitor_voltage |-> PolyZero, delta_i |-> PolyZero,
          time_sim |-> <<0>>, current |-> <<PolyOne>>]
    [] p = PfLeft ->
         [grantedtime |-> 0, Sa |-> Cplx(0, 0, 1), voltage |-> Cplx(1, 0, 1)]
    [] p = Gpk3 ->
         [grantedtime |-> 0,
          Sa |-> Cplx(0, 0, 1), Sb |-> Cplx(0, 0, 1), Sc |-> Cplx(0, 0, 1),
          Va |-> Cplx(1, 0, 1),
          Vb |-> Cplx(-500000, -866025, 1000000),
          Vc |-> Cplx(-500000, 866025, 1000000)]
    [] p = Gridpack ->
         [t |-> 0, load_current |-> Cplx(0, 0, 1),
          voltage_A |-> Cplx(0, 0, 1), voltage_B |-> Cplx(0, 0, 1),
          voltage_C |-> Cplx(0, 0, 1)]

\* Statements.  A publish names the local variable it publishes (src) and
\* the factor num/den applied to it in the call's argument.
SRequest(dst) == [op |-> "requestTime", dst |-> dst]
SGet(sub, dst, div) == [op |-> "getValue", sub |-> sub, dst |-> dst, div |-> div]
SIntegrate == [op |-> "integrate"]
SExecute(app, v, s) == [op |-> "execute", app |-> app, v |-> v, s |-> s]
SRotate == [op |-> "rotate"]
SCompute == [op |-> "compute"]
SPublish(pub, src, num, den) ==
  [op |-> "publish", pub |-> pub, src |-> src, num |-> num, den |-> den]

\* The publishes between enterExecutingMode() and the loop.
InitPubs(p) ==
  CASE p = Capacitor -> << SPublish("Vc", "voltage", 1, 1) >>
    [] p = Inductor -> << SPublish("Il", "current", 1, 1) >>
    [] p = PfLeft -> << SPublish("Vc", "voltage", 69000, 1) >>
    [] p = Gpk3 -> << SPublish("Va", "Va", 240178, 100),
                      SPublish("Vb", "Vb", 240178, 100),
                      SPublish("Vc", "Vc", 240178, 100) >>
    [] p = Gridpack -> << >>

\* A Capacitor that reads the subscription before it asks for the time.
CapacitorBodyReadFirst ==
  << SGet("Inductor/Il", "inductor_current", 1),
     SRequest("grantedtime"),
     SIntegrate,
     SPublish("Vc", "voltage", 1, 1) >>

CapacitorBody ==
  << SRequest("grantedtime"),
     SGet("Inductor/Il", "inductor_current", 1),
     SIntegrate,
     SPublish("Vc", "voltage", 1, 1) >>

InductorBody ==
  << SRequest("grantedtime"),
     SGet("Capacitor/Vc", "capacitor_voltage", 1),
     SIntegrate,
     SPublish("Il", "current", 1, 1) >>

\* A single-phase federate that divides by the three-phase federate's factor.
PfLeftBodyOtherScale ==
  << SRequest("grantedtime"),
     SGet("gpk_gld_right_fed/sa", "Sa", 100000000),
     SExecute("app", "voltage", "Sa"),
     SPublish("Vc", "voltage", 69000, 1) >>

PfLeftBody ==
  << SRequest("grantedtime"),
     SGet("gpk_gld_right_fed/sa", "Sa", 1000000),
     SExecute("app", "voltage", "Sa"),
     SPublish("Vc", "voltage", 69000, 1) >>

\* A three-phase federate that publishes before it rotates Vb and Vc.
Gpk3BodyPublishBeforeRotate ==
  << SRequest("grantedtime"),
     SGet("gld_hlc_conn/Sa", "Sa", 100000000),
     SGet("gld_hlc_conn/Sb", "Sb", 100000000),
     SGet("gld_hlc_conn/Sc", "Sc", 100000000),
     SExecute("app_A", "Va", "Sa"),
     SExecute("app_B", "Vb", "Sb"),
     SExecute("app_C", "Vc", "Sc"),
     SPublish("Va", "Va", 2400, 1),
     SPublish("Vb", "Vb", 2400, 1),
     SPublish("Vc", "Vc", 2400, 1),
     SRotate >>

Gpk3Body ==
  << SRequest("grantedtime"),
     SGet("gld_hlc_conn/Sa", "Sa", 100000000),
     SGet("gld_hlc_conn/Sb", "Sb", 100000000),
     SGet("gld_hlc_conn/Sc", "Sc", 100000000),
     SExecute("app_A", "Va", "Sa"),
     SExecute("app_B", "Vb", "Sb"),
     SExecute("app_C", "Vc", "Sc"),
     SRotate,
     SPublish("Va", "Va", 2400, 1),
     SPublish("Vb", "Vb", 2400, 1),
     SPublish("Vc", "Vc", 2400, 1) >>

\* requestTime's result is discarded here.
GridpackBody ==
  << SRequest(""),
     SGet("load_meter/current", "load_current", 1),
     SCompute,
     SPublish("gridpack/voltage_A", "voltage_A", 1, 1),
     SPublish("gridpack/voltage_B", "voltage_B", 1, 1),
     SPublish("gridpack/voltage_C", "voltage_C", 1, 1) >>

Body(p) ==
  CASE p = Capacitor -> CapacitorBody
    [] p = Inductor -> InductorBody
    [] p = PfLeft -> PfLeftBody
    [] p = Gpk3 -> Gpk3Body
    [] p = Gridpack -> GridpackBody

\* The local variables a statement assigns.
Writes(p, st) ==
  CASE st.op = "requestTime" -> IF st.dst = "" THEN {} ELSE {st.dst}
    [] st.op = "getValue" -> {st.dst}
    [] st.op = "integrate" ->
         IF p = Capacitor THEN {"delta_v", "time_sim", "voltage"}
                          ELSE {"delta_i", "time_sim", "current"}
    [] st.op = "execute" -> {st.v}
    [] st.op = "rotate" -> {"Vb", "Vc"}
    [] st.op = "compute" -> {"voltage_A", "voltage_B", "voltage_C"}
    [] st.op = "publish" -> {}

\* The publications a federate registers.
PubNames(p) == {Body(p)[i].pub : i \in {j \in 1..Len(Body(p)) : Body(p)[j].op = "publish"}}

\* A loop test that lets the loop run while the bound is reached, not
\* only below it.
LoopCondInclusive(p, l) ==
  IF p = Gridpack THEN l.t <= GridpackSteps ELSE l.grantedtime <= total_interval

\* while (grantedtime < total_interval)  /  for (...; t < 10; ...)
LoopCond(p, l) ==
  IF p = Gridpack THEN l.t < GridpackSteps ELSE l.grantedtime < total_interval

\* A request that skips a period.
RequestTargetTwoPeriods(p, l) ==
  IF p = Gridpack THEN (l.t + 2) * Period ELSE l.grantedtime + 2 * Period

\* requestTime(grantedtime + period)  /  requestTime(t + 1.0)
RequestTarget(p, l) ==
  IF p = Gridpack THEN (l.t + 1) * Period ELSE l.grantedtime + Period

\* The argument of a publish call.
PubValue(p, st, l) ==
  IF p \in Integrators
    THEN l[st.src][Len(l[st.src])]
    ELSE CMul(l[st.src], st.num, st.den)

(***************************************************************************)
(* What the environment may hand to a federate.                            *)
(***************************************************************************)
\* Values of the peer's quantity read by an lc-tank federate.
PeerVals == {PolyZero, PolyOne}

\* Raw complex power (VA) / load current read by a solver federate.
RawVals == {Cplx(0, 0, 1), Cplx(5000000, 0, 1)}

SubVals(p) == IF p \in Integrators THEN PeerVals ELSE RawVals

\* Converged per-unit voltages the solver may return (one only for the
\* three-phase federate, whose six voltages multiply the state space).
SolverVals(p) ==
  IF p = Gpk3 THEN {Cplx(102, 0, 100)} ELSE {Cplx(102, 0, 100), Cplx(98, -5, 100)}

(***************************************************************************)
(* State.                                                                  *)
(***************************************************************************)
VARIABLES
  pc,            \* f -> where main() stands: "enter", "initpub", "test",
                 \*      "body", "finalize", "return", "catch", "done"
  ip,            \* f -> the statement of InitPubs / Body that is next
  loc,           \* f -> the local variables of main()
  req,           \* f -> the time of the pending requestTime call, or NoReq
  granted,       \* f -> the time the substrate granted last
  slack,         \* irregular answers the environment may still give
  published,     \* f -> publication -> the value published last
  log,           \* f -> the calls made so far, <<op, argument, result>>
  peer_inputs,   \* f -> the peer value each integration step used
  kinds,         \* f -> the kinds of grant met so far: "full", "short", "stall"
  nonconv,       \* f -> the solver has reported non-convergence
  written,       \* f -> the local variables assigned in this iteration
  finalized,     \* f -> finalize() has been called
  destroyed,     \* f -> the federate object's destructor has run
  exitCode,      \* f -> "running", "0", "-1" or "SIGABRT"
  inflight,      \* f -> the messages on their way to f, oldest first
  view           \* f -> what the substrate has delivered to f so far

vars == << pc, ip, loc, req, granted, slack, published, log, peer_inputs,
           kinds, nonconv, written,
           finalized, destroyed, exitCode, inflight, view >>

NoReq == -1

Feds == DOMAIN pc

Stmt(f) == Body(f)[ip[f]]

AtStmt(f, op) == pc[f] = "body" /\ req[f] = NoReq /\ Stmt(f).op = op

Logged(f, op, arg, res) == log' = [log EXCEPT ![f] = Append(@, <<op, arg, res>>)]

\* The statement at ip is done and leaves the local variables l: go on to
\* the next one, or back to the loop test (gridpack_federate: ++t).
StepDone(f, l) ==
  /\ written' = [written EXCEPT ![f] = @ \cup Writes(f, Stmt(f))]
  /\ IF ip[f] < Len(Body(f))
       THEN /\ pc' = pc
            /\ ip' = [ip EXCEPT ![f] = @ + 1]
            /\ loc' = [loc EXCEPT ![f] = l]
       ELSE /\ pc' = [pc EXCEPT ![f] = "test"]
            /\ ip' = [ip EXCEPT ![f] = 0]
            /\ loc' = [loc EXCEPT ![f] =
                        IF f = Gridpack THEN [l EXCEPT !.t = @ + 1] ELSE l]

\* The messages a federate's calls send to the other federates of the
\* federation: a published value, the time it asks for, its leaving.
ValueMsg(pub, val) == [type |-> "value", pub |-> pub, val |-> val]
RequestMsg(time) == [type |-> "request", time |-> time]
ByeMsg == [type |-> "bye"]

\* helics::invalidDouble, what getDouble() returns before any update has
\* arrived: a value no federate publishes.
InvalidDouble == <<-1>>

\* What the substrate has delivered to a federate: the peer's last value,
\* the last time the peer asked for, whether the peer has left.
NoView == [value |-> InvalidDouble, next |-> 0, gone |-> FALSE]

\* The call's message goes out to every other federate.
Send(f, m) ==
  inflight' = [q \in Feds |-> IF q = f THEN inflight[q] ELSE Append(inflight[q], m)]

\* An exception leaves the call.  gridpack_federate catches it; the other
\* programs have no handler, std::terminate() ends the process, and whether
\* the stack is unwound first is implementation-defined.
Raise(f) ==
  IF f = Gridpack
    THEN /\ pc' = [pc EXCEPT ![f] = "catch"]
         /\ destroyed' = [destroyed EXCEPT ![f] = TRUE]
         /\ exitCode' = exitCode
    ELSE /\ pc' = [pc EXCEPT ![f] = "done"]
         /\ \E u \in BOOLEAN : destroyed' = [destroyed EXCEPT ![f] = u]
         /\ exitCode' = [exitCode EXCEPT ![f] = "SIGABRT"]

InitFor(F) ==
  /\ pc = [f \in F |-> "enter"]
  /\ ip = [f \in F |-> 0]
  /\ loc = [f \in F |-> Locals(f)]
  /\ req = [f \in F |-> NoReq]
  /\ granted = [f \in F |-> 0]
  /\ slack = MaxIrregular
  /\ published = [f \in F |-> << >>]
  /\ log = [f \in F |-> << >>]
  /\ peer_inputs = [f \in F |-> << >>]
  /\ kinds = [f \in F |-> {}]
  /\ nonconv = [f \in F |-> FALSE]
  /\ written = [f \in F |-> {}]
  /\ finalized = [f \in F |-> FALSE]
  /\ destroyed = [f \in F |-> FALSE]
  /\ exitCode = [f \in F |-> "running"]
  /\ inflight = [f \in F |-> << >>]
  /\ view = [f \in F |-> NoView]

\* One federate program runs against the environment.
Init == \E p \in Programs : InitFor({p})

(***************************************************************************)
(* Prologue.                                                               *)
(***************************************************************************)
EnterExecutingMode(f) ==
  /\ pc[f] = "enter"
  /\ pc' = [pc EXCEPT ![f] = IF InitPubs(f) = << >> THEN "test" ELSE "initpub"]
  /\ ip' = [ip EXCEPT ![f] = IF InitPubs(f) = << >> THEN 0 ELSE 1]
  /\ Logged(f, "enterExecutingMode", "", "ok")
  /\ UNCHANGED << loc, req, granted, slack, published, peer_inputs, kinds, nonconv, written,
                  finalized, destroyed, exitCode,
                  inflight, view >>

PublishInitial(f) ==
  /\ pc[f] = "initpub"
  /\ LET st == InitPubs(f)[ip[f]] IN
       /\ published' = [published EXCEPT ![f] =
                          (st.pub :> PubValue(f, st, loc[f])) @@ @]
       /\ Logged(f, "publish", st.pub, "ok")
  /\ IF ip[f] < Len(InitPubs(f))
       THEN /\ ip' = [ip EXCEPT ![f] = @ + 1]
            /\ pc' = pc
       ELSE /\ ip' = [ip EXCEPT ![f] = 0]
            /\ pc' = [pc EXCEPT ![f] = "test"]
  /\ Send(f, ValueMsg(InitPubs(f)[ip[f]].pub, PubValue(f, InitPubs(f)[ip[f]], loc[f])))
  /\ UNCHANGED << loc, req, granted, slack, peer_inputs, kinds, nonconv, written,
                  finalized, destroyed, exitCode, view >>

(***************************************************************************)
(* The stepping loop.                                                      *)
(***************************************************************************)
LoopEnter(f) ==
  /\ pc[f] = "test"
  /\ LoopCond(f, loc[f])
  /\ pc' = [pc EXCEPT ![f] = "body"]
  /\ ip' = [ip EXCEPT ![f] = 1]
  /\ written' = [written EXCEPT ![f] = {}]
  /\ UNCHANGED << loc, req, granted, slack, published, log, peer_inputs, kinds, nonconv,
                  finalized, destroyed, exitCode,
                  inflight, view >>

LoopExit(f) ==
  /\ pc[f] = "test"
  /\ ~LoopCond(f, loc[f])
  /\ pc' = [pc EXCEPT ![f] = "finalize"]
  /\ UNCHANGED << ip, loc, req, granted, slack, published, log, peer_inputs, kinds, nonconv, written,
                  finalized, destroyed, exitCode,
                  inflight, view >>

\* The call of requestTime: the federate blocks until the substrate answers.
RequestTime(f) ==
  /\ AtStmt(f, "requestTime")
  /\ req' = [req EXCEPT ![f] = RequestTarget(f, loc[f])]
  /\ Logged(f, "requestTime", "", "call")
  /\ Send(f, RequestMsg(RequestTarget(f, loc[f])))
  /\ UNCHANGED << pc, ip, loc, granted, slack, published, peer_inputs, kinds, nonconv, written,
                  finalized, destroyed, exitCode, view >>

\* How a grant g relates to the time granted before and the time requested.
GrantKind(f, g) ==
  IF g = req[f] /\ g > granted[f] THEN "full"
  ELSE IF g > granted[f] THEN "short"
  ELSE "stall"

\* The substrate grants a time no later than requested and no earlier than
\* the time it granted last.
Grant(f) ==
  /\ pc[f] = "body"
  /\ req[f] # NoReq
  /\ \E g \in granted[f]..req[f] :
       /\ GrantKind(f, g) # "full" => slack > 0
       /\ slack' = IF GrantKind(f, g) # "full" THEN slack - 1 ELSE slack
       /\ granted' = [granted EXCEPT ![f] = g]
       /\ kinds' = [kinds EXCEPT ![f] = @ \cup {GrantKind(f, g)}]
       /\ Logged(f, "grant", "", "ok")
       /\ StepDone(f, IF Stmt(f).dst = ""
                        THEN loc[f]
                        ELSE [loc[f] EXCEPT ![Stmt(f).dst] = g])
  /\ req' = [req EXCEPT ![f] = NoReq]
  /\ UNCHANGED << published, peer_inputs, nonconv, finalized, destroyed, exitCode,
                  inflight, view >>

\* The substrate reports a fatal error to the pending requestTime call.
RequestThrow(f) ==
  /\ pc[f] = "body"
  /\ req[f] # NoReq
  /\ req' = [req EXCEPT ![f] = NoReq]
  /\ Logged(f, "requestTime", "", "throw")
  /\ Raise(f)
  /\ UNCHANGED << ip, loc, granted, slack, published, peer_inputs, kinds, nonconv, written, finalized,
                  inflight, view >>

\* getDouble() / getValue<std::complex<double>>() / div / getComplex()
GetValue(f) ==
  /\ AtStmt(f, "getValue")
  /\ \E v \in SubVals(f) :
       StepDone(f, [loc[f] EXCEPT ![Stmt(f).dst] =
                      IF f \in Integrators THEN v ELSE CDiv(v, Stmt(f).div)])
  /\ Logged(f, "getValue", Stmt(f).sub, "ok")
  /\ UNCHANGED << req, granted, slack, published, peer_inputs, kinds, nonconv,
                  finalized, destroyed, exitCode,
                  inflight, view >>

\* A capacitor charged, not discharged, by the current flowing out.
CapacitorDeltaCharging(inductor_current) ==
  PolyShift(PolyScale(inductor_current, Period))

\* delta_v = (-1.0 / c_value) * inductor_current * period
CapacitorDelta(inductor_current) ==
  PolyShift(PolyScale(inductor_current, -Period))

\* delta_i = (1.0 / l_value) * capacitor_voltage * period
InductorDelta(capacitor_voltage) ==
  PolyShift(PolyScale(capacitor_voltage, Period))

\* An Euler step that overwrites the last record instead of appending one.
IntegratedInPlace(f, l) ==
  IF f = Capacitor
    THEN LET d == CapacitorDelta(l.inductor_current) IN
         [l EXCEPT !.delta_v = d,
                   !.time_sim[Len(l.time_sim)] = l.grantedtime,
                   !.voltage[Len(l.voltage)] = PolyAdd(@, d)]
    ELSE LET d == InductorDelta(l.capacitor_voltage) IN
         [l EXCEPT !.delta_i = d,
                   !.time_sim[Len(l.time_sim)] = l.grantedtime,
                   !.current[Len(l.current)] = PolyAdd(@, d)]

\* The explicit Euler step and the two push_back calls.
Integrated(f, l) ==
  IF f = Capacitor
    THEN LET d == CapacitorDelta(l.inductor_current) IN
         [l EXCEPT !.delta_v = d,
                   !.time_sim = Append(@, l.grantedtime),
                   !.voltage = Append(@, PolyAdd(l.voltage[Len(l.voltage)], d))]
    ELSE LET d == InductorDelta(l.capacitor_voltage) IN
         [l EXCEPT !.delta_i = d,
                   !.time_sim = Append(@, l.grantedtime),
                   !.current = Append(@, PolyAdd(l.current[Len(l.current)], d))]

\* The peer value an integration step reads from the local variables.
PeerInput(f, l) == IF f = Capacitor THEN l.inductor_current ELSE l.capacitor_voltage

Integrate(f) ==
  /\ AtStmt(f, "integrate")
  /\ StepDone(f, Integrated(f, loc[f]))
  /\ peer_inputs' = [peer_inputs EXCEPT ![f] = Append(@, PeerInput(f, loc[f]))]
  /\ UNCHANGED << req, granted, slack, published, log, kinds, nonconv,
                  finalized, destroyed, exitCode,
                  inflight, view >>

\* What PFApp::execute may leave in its voltage argument when it returns:
\* a converged voltage, or, when it reports non-convergence, anything (the
\* argument untouched included).
SolverReturns(p, v) ==
  {[res |-> "ok", v |-> w] : w \in SolverVals(p)}
    \cup {[res |-> "nonconv", v |-> w] : w \in SolverVals(p) \cup {v}}

\* app.execute(argc, argv, voltage, Sa) returns; whatever it reports is
\* discarded by the call statement.
Execute(f) ==
  /\ AtStmt(f, "execute")
  /\ \E r \in SolverReturns(f, loc[f][Stmt(f).v]) :
       /\ r.res = "nonconv" => slack > 0
       /\ slack' = IF r.res = "nonconv" THEN slack - 1 ELSE slack
       /\ nonconv' = [nonconv EXCEPT ![f] = @ \/ r.res = "nonconv"]
       /\ StepDone(f, [loc[f] EXCEPT ![Stmt(f).v] = r.v])
       /\ Logged(f, "execute", Stmt(f).app, "ok")
  /\ UNCHANGED << req, granted, published, peer_inputs, kinds,
                  finalized, destroyed, exitCode,
                  inflight, view >>

\* app.execute(...) reports non-convergence by an exception.
ExecuteThrow(f) ==
  /\ AtStmt(f, "execute")
  /\ Logged(f, "execute", Stmt(f).app, "throw")
  /\ nonconv' = [nonconv EXCEPT ![f] = TRUE]
  /\ Raise(f)
  /\ UNCHANGED << ip, loc, req, granted, slack, published, peer_inputs, kinds,
                  written, finalized,
                  inflight, view >>

\* Vb = Vb * r120;  Vc = Vc * r120 * r120;
Rotate(f) ==
  /\ AtStmt(f, "rotate")
  /\ StepDone(f, [loc[f] EXCEPT !.Vb = CRot(@, 1), !.Vc = CRot(@, 2)])
  /\ UNCHANGED << req, granted, slack, published, log, peer_inputs, kinds, nonconv,
                  finalized, destroyed, exitCode,
                  inflight, view >>

\* voltage_A/B/C = load_current * 1.1 / 1.2 / 1.3
Compute(f) ==
  /\ AtStmt(f, "compute")
  /\ StepDone(f, [loc[f] EXCEPT !.voltage_A = CMul(loc[f].load_current, 11, 10),
                                !.voltage_B = CMul(loc[f].load_current, 12, 10),
                                !.voltage_C = CMul(loc[f].load_current, 13, 10)])
  /\ UNCHANGED << req, granted, slack, published, log, peer_inputs, kinds, nonconv,
                  finalized, destroyed, exitCode,
                  inflight, view >>

Publish(f) ==
  /\ AtStmt(f, "publish")
  /\ published' = [published EXCEPT ![f] =
                     (Stmt(f).pub :> PubValue(f, Stmt(f), loc[f])) @@ @]
  /\ Logged(f, "publish", Stmt(f).pub, "ok")
  /\ StepDone(f, loc[f])
  /\ Send(f, ValueMsg(Stmt(f).pub, PubValue(f, Stmt(f), loc[f])))
  /\ UNCHANGED << req, granted, slack, peer_inputs, kinds, nonconv, finalized, destroyed, exitCode, view >>

\* The substrate reports a fatal error to a getValue or publish call.
CallThrow(f) ==
  /\ pc[f] = "body" /\ req[f] = NoReq
  /\ Stmt(f).op \in {"getValue", "publish"}
  /\ Logged(f, Stmt(f).op,
            IF Stmt(f).op = "publish" THEN Stmt(f).pub ELSE Stmt(f).sub, "throw")
  /\ Raise(f)
  /\ UNCHANGED << ip, loc, req, granted, slack, published, peer_inputs, kinds, nonconv, written, finalized,
                  inflight, view >>

(***************************************************************************)
(* Epilogue.                                                               *)
(***************************************************************************)
Finalize(f) ==
  /\ pc[f] = "finalize"
  /\ finalized' = [finalized EXCEPT ![f] = TRUE]
  /\ Logged(f, "finalize", "", "ok")
  /\ pc' = [pc EXCEPT ![f] = "return"]
  /\ Send(f, ByeMsg)
  /\ UNCHANGED << ip, loc, req, granted, slack, published, peer_inputs, kinds, nonconv, written,
                  destroyed, exitCode, view >>

\* return 0;
ReturnMain(f) ==
  /\ pc[f] = "return"
  /\ pc' = [pc EXCEPT ![f] = "done"]
  /\ exitCode' = [exitCode EXCEPT ![f] = "0"]
  /\ destroyed' = [destroyed EXCEPT ![f] = TRUE]
  /\ UNCHANGED << ip, loc, req, granted, slack, published, log, peer_inputs, kinds, nonconv, written,
                  finalized,
                  inflight, view >>

\* catch (const helicscpp::HelicsException& e) { ...; return -1; }
CatchReturn(f) ==
  /\ pc[f] = "catch"
  /\ pc' = [pc EXCEPT ![f] = "done"]
  /\ exitCode' = [exitCode EXCEPT ![f] = "-1"]
  /\ UNCHANGED << ip, loc, req, granted, slack, published, log, peer_inputs, kinds, nonconv, written,
                  finalized, destroyed,
                  inflight, view >>

Next ==
  \/ \E f \in Feds : EnterExecutingMode(f)
  \/ \E f \in Feds : PublishInitial(f)
  \/ \E f \in Feds : LoopEnter(f)
  \/ \E f \in Feds : LoopExit(f)
  \/ \E f \in Feds : RequestTime(f)
  \/ \E f \in Feds : Grant(f)
  \/ \E f \in Feds : RequestThrow(f)
  \/ \E f \in Feds : GetValue(f)
  \/ \E f \in Feds : Integrate(f)
  \/ \E f \in Feds : Execute(f)
  \/ \E f \in Feds : ExecuteThrow(f)
  \/ \E f \in Feds : Rotate(f)
  \/ \E f \in Feds : Compute(f)
  \/ \E f \in Feds : Publish(f)
  \/ \E f \in Feds : CallThrow(f)
  \/ \E f \in Feds : Finalize(f)
  \/ \E f \in Feds : ReturnMain(f)
  \/ \E f \in Feds : CatchReturn(f)

Spec == Init /\ [][Next]_vars

(***************************************************************************)
(* Reading the call log.                                                   *)
(***************************************************************************)
SetMax(S) == CHOOSE m \in S : \A k \in S : k <= m
SetMin(S) == CHOOSE m \in S : \A k \in S : m <= k

OpAt(f, i) == log[f][i][1]

\* The calls that order a step: the time request, its grant, a publish.
SyncOps == {"requestTime", "grant", "publish"}

\* The last ordering call before call i, or "none".
LastSyncBefore(f, i) ==
  LET S == {j \in 1..(i - 1) : OpAt(f, j) \in SyncOps} IN
    IF S = {} THEN "none" ELSE OpAt(f, SetMax(S))

\* The requestTime calls: each opens the calls of one loop iteration.
ReqCalls(f) == {i \in 1..Len(log[f]) : log[f][i] = <<"requestTime", "", "call">>}

\* The last call of the iteration opened at r.
SegEnd(f, r) ==
  LET later == {j \in ReqCalls(f) : j > r} IN
    IF later = {} THEN Len(log[f]) ELSE SetMin(later) - 1

\* The iteration opened at r has run to its end.
SegComplete(f, r) ==
  \/ \E j \in ReqCalls(f) : j > r
  \/ pc[f] \in {"test", "finalize", "return"}
  \/ pc[f] = "done" /\ exitCode[f] = "0"

PubsIn(f, r, name) == {i \in r..SegEnd(f, r) : log[f][i] = <<"publish", name, "ok">>}

AllPubsIn(f, r) == {i \in r..SegEnd(f, r) : OpAt(f, i) = "publish"}

ReadsIn(f, r) == {i \in r..SegEnd(f, r) : OpAt(f, i) = "getValue" /\ log[f][i][3] = "ok"}

BodyIdx(f, op) == {k \in 1..Len(Body(f)) : Body(f)[k].op = op}

PubStmt(f, name) ==
  Body(f)[CHOOSE k \in BodyIdx(f, "publish") : Body(f)[k].pub = name]

NormalExit(f) == pc[f] = "done" /\ exitCode[f] = "0"

\* The loop has been left by its test.
LoopLeft(f) == pc[f] \in {"finalize", "return"} \/ NormalExit(f)

(***************************************************************************)
(* C1.  In every loop iteration of every federate, every subscription is   *)
(* read after that iteration's requestTime has returned its grant and      *)
(* before any publish of that iteration: the last ordering call (time      *)
(* request, grant, publish) before a read is always a grant.               *)
(***************************************************************************)
C1_ReadAfterGrantBeforePublish ==
  \A f \in Feds : \A i \in 1..Len(log[f]) :
    OpAt(f, i) = "getValue" => LastSyncBefore(f, i) = "grant"

\* A federate has run to its normal end after a shortened step, having
\* read its subscriptions in several iterations.
C1_Witness ==
  \E f \in Feds :
    /\ NormalExit(f)
    /\ "short" \in kinds[f]
    /\ Cardinality({i \in 1..Len(log[f]) : OpAt(f, i) = "getValue"}) >= 2

(***************************************************************************)
(* The trajectory of an integration federate.                              *)
(***************************************************************************)
\* vector<double> voltage / current
StateVec(f) == IF f = Capacitor THEN loc[f].voltage ELSE loc[f].current

StrictlyIncreasing(ts) == \A i \in 2..Len(ts) : ts[i] > ts[i - 1]

\* k * input * dt, with k = -1/C for the capacitor and k = 1/L for the
\* inductor, dt in ticks.
ElapsedDelta(f, input, dt) ==
  PolyShift(PolyScale(input, IF f = Capacitor THEN -dt ELSE dt))

\* seed + the sum over the first n steps of k * input_i * (t_i - t_(i-1))
RECURSIVE ActualState(_, _)
ActualState(f, n) ==
  IF n = 0 THEN StateVec(f)[1]
  ELSE PolyAdd(ActualState(f, n - 1),
               ElapsedDelta(f, peer_inputs[f][n],
                            loc[f].time_sim[n + 1] - loc[f].time_sim[n]))

(***************************************************************************)
(* C2.  For strictly increasing granted times the state of the Capacitor   *)
(* and of the Inductor after n steps is the seed plus the sum over the     *)
(* steps of k * input_i * (t_i - t_(i-1)): the elapsed time of each step,  *)
(* not the nominal period, enters the integration.                         *)
(***************************************************************************)
C2_IntegratesActualElapsedTime ==
  \A f \in Feds \cap Integrators :
    StrictlyIncreasing(loc[f].time_sim)
      => StateVec(f)[Len(StateVec(f))] = ActualState(f, Len(peer_inputs[f]))

(***************************************************************************)
(* C3.  A step of an integration federate whose granted time equals the    *)
(* previous granted time appends a state equal to the previous state,      *)
(* whatever the peer input.                                                *)
(***************************************************************************)
C3_ZeroProgressStepIsNoOp ==
  \A f \in Feds \cap Integrators :
    \A i \in 2..Len(loc[f].time_sim) :
      loc[f].time_sim[i] = loc[f].time_sim[i - 1]
        => StateVec(f)[i] = StateVec(f)[i - 1]

(***************************************************************************)
(* C4.  When every grant makes progress (current < t' <= current +         *)
(* period), grantedtime is always the time the substrate granted last,     *)
(* and once the loop has been left by its test grantedtime does not        *)
(* exceed total_interval.                                                  *)
(***************************************************************************)
C4_ClockGrantedAndWithinHorizon ==
  \A f \in Feds \cap Clocked :
    "stall" \notin kinds[f]
      => /\ loc[f].grantedtime = granted[f]
         /\ LoopLeft(f) => loc[f].grantedtime <= total_interval

C6_FinalizedOnEveryExit ==
  \A f \in Feds : pc[f] = "done" => finalized[f]

(***************************************************************************)
(* C7.  Once the solver has failed to converge, no publish call is made    *)
(* any more and the process does not end with exit code 0.                 *)
(***************************************************************************)
C7_NonConvergenceAbortsWithoutPublish ==
  \A f \in Feds :
    nonconv[f]
      => /\ OpAt(f, Len(log[f])) # "publish"
         /\ pc[f] = "done" => exitCode[f] # "0"

\* The calls at which the substrate reported a fatal error to requestTime.
ReqThrows(f) == {i \in 1..Len(log[f]) : log[f][i] = <<"requestTime", "", "throw">>}

AnyThrow(f) == \E i \in 1..Len(log[f]) : log[f][i][3] = "throw"

(***************************************************************************)
(* C8.  After a fatal error reported to a time request the federate makes  *)
(* no further requestTime, read or publish call, it calls finalize() and   *)
(* ends with a non-zero exit code; a run without error ends with 0.        *)
(***************************************************************************)
C8_SubstrateErrorAbortsCleanly ==
  \A f \in Feds :
    /\ \A i \in ReqThrows(f) :
         /\ \A j \in (i + 1)..Len(log[f]) :
              OpAt(f, j) \notin {"requestTime", "getValue", "publish"}
         /\ pc[f] = "done" => finalized[f] /\ exitCode[f] # "0"
    /\ (pc[f] = "done" /\ ~AnyThrow(f)) => exitCode[f] = "0"

(***************************************************************************)
(* C9.  A run in which the substrate only ever grants zero progress is     *)
(* ended as a fatal condition: if such a run ends, it ends with a          *)
(* non-zero exit code.                                                     *)
(***************************************************************************)
C9_PersistentZeroProgressIsFatal ==
  \A f \in Feds :
    (kinds[f] = {"stall"} /\ pc[f] = "done") => exitCode[f] # "0"

\* The federates take their steps: main() runs on, and every call the
\* environment can answer is answered.
FairSpec == Spec /\ WF_vars(Next)

\* The first half of C9: with the environment's irregular answers bounded,
\* every federate process ends, and a process that ends without an
\* exception has called finalize().
C9_EveryRunEnds ==
  /\ <>(\A f \in Feds : pc[f] = "done")
  /\ [](\A f \in Feds : NormalExit(f) => finalized[f])

FirstReq(f) == SetMin(ReqCalls(f))

\* The publishes on name made after enterExecutingMode() and before call r.
InitialPubsBefore(f, r, name) ==
  {i \in 1..(r - 1) :
     /\ log[f][i] = <<"publish", name, "ok">>
     /\ \E j \in 1..(i - 1) : OpAt(f, j) = "enterExecutingMode"}

C11_InitialOutputsPublishedOnce ==
  \A f \in Feds :
    /\ ReqCalls(f) = {} => granted[f] = 0
    /\ ReqCalls(f) # {} =>
         \A n \in PubNames(f) :
           Cardinality(InitialPubsBefore(f, FirstReq(f), n)) = 1

(***************************************************************************)
(* C12.  In every step of the three-phase federate the solves of phases A, *)
(* B and C have all returned before any of Va, Vb, Vc is published, and    *)
(* when a solve of the step has failed none of the step's three values is  *)
(* published (the failing step is told from the log in the first step,     *)
(* where a failure recorded so far can only be this step's).               *)
(***************************************************************************)
PhaseApps == {"app_A", "app_B", "app_C"}

\* The solves of the iteration opened at r that have returned before call i.
SolvedBefore(f, r, i) ==
  {a \in PhaseApps : \E j \in r..(i - 1) : log[f][j] = <<"execute", a, "ok">>}

C12_AllPhasesSolvedBeforePublish ==
  \A f \in Feds \cap {Gpk3} :
    /\ \A r \in ReqCalls(f) : \A i \in AllPubsIn(f, r) :
         SolvedBefore(f, r, i) = PhaseApps
    /\ (nonconv[f] /\ Cardinality(ReqCalls(f)) = 1)
         => AllPubsIn(f, FirstReq(f)) = {}

(***************************************************************************)
(* C13.  In the single-phase solver federate the value handed to the       *)
(* solver is the raw power read in the step divided by 1,000,000, and the  *)
(* value on the publication at the end of a step is the voltage the solver *)
(* left, multiplied by the base voltage 69,000 and by nothing else: raw    *)
(* 5,000,000+0j gives the solver 5+0j, and a solver voltage of 1.02+0j     *)
(* gives the publish 1.02 * 69,000.                                        *)
(***************************************************************************)
C13_ScalesInputAndOutput ==
  \A f \in Feds \cap {PfLeft} :
    /\ AtStmt(f, "execute") =>
         /\ \E raw \in RawVals :
              loc[f][Stmt(f).s] =
                [re |-> raw.re, im |-> raw.im, mul |-> 1, den |-> 1000000, rot |-> 0]
         /\ Stmt(f).s = "Sa" /\ Stmt(f).v = "voltage"
    /\ (pc[f] = "test" /\ ReqCalls(f) # {}) =>
         /\ loc[f].voltage.mul = 1 /\ loc[f].voltage.rot = 0
         /\ published[f]["Vc"] =
              [re |-> loc[f].voltage.re, im |-> loc[f].voltage.im,
               mul |-> 69000, den |-> loc[f].voltage.den, rot |-> 0]
         /\ log[f][Len(log[f])] = <<"publish", "Vc", "ok">>
         /\ log[f][Len(log[f]) - 1] = <<"execute", "app", "ok">>

\* The scenario of the claim: raw 5,000,000+0j was read, the solver left
\* 1.02+0j, and 1.02 * 69,000 stands on the publication.
C13_Witness ==
  \E f \in Feds :
    /\ f = PfLeft
    /\ pc[f] = "test"
    /\ loc[f].Sa = [re |-> 5000000, im |-> 0, mul |-> 1, den |-> 1000000, rot |-> 0]
    /\ loc[f].voltage = [re |-> 102, im |-> 0, mul |-> 1, den |-> 100, rot |-> 0]
    /\ published[f]["Vc"] = [re |-> 102, im |-> 0, mul |-> 69000, den |-> 100, rot |-> 0]

(***************************************************************************)
(* The lc-tank pair: Capacitor and Inductor run together, each subscribed  *)
(* to the other's publication.  The substrate carries each federate's      *)
(* messages to the other in the order they were sent and orders the time   *)
(* grants.  With HELICS_PROPERTY_TIME_PERIOD set to period in both         *)
(* federates it grants multiples of the period only, so every grant is the *)
(* time requested.                                                         *)
(***************************************************************************)
\* A pair in which no federate waits for the current-time update.
NoneWaits(f) == FALSE

\* A pair in which both federates wait for the current-time update.
BothWait(f) == TRUE

\* fi.setFlagOption(HELICS_FLAG_WAIT_FOR_CURRENT_TIME_UPDATE, true / false)
WaitForCurrentTimeUpdate(f) == f = Capacitor

\* The substrate may grant f's pending request: the peer has left, or it
\* has asked for a time no earlier than the requested one, so that it
\* cannot publish before that time any more; for a federate that waits for
\* the current-time update the peer must have asked for a later time, so
\* that it cannot publish at the requested time either.
CanGrant(f) ==
  /\ pc[f] = "body"
  /\ req[f] # NoReq
  /\ \/ view[f].gone
     \/ IF WaitForCurrentTimeUpdate(f)
          THEN view[f].next > req[f]
          ELSE view[f].next >= req[f]

\* The grant of the time requested.
PairGrant(f) ==
  /\ CanGrant(f)
  /\ Grant(f)
  /\ granted'[f] = req[f]

\* The substrate delivers the oldest message on its way to f.
Deliver(f) ==
  /\ inflight[f] # << >>
  /\ LET m == Head(inflight[f]) IN
       view' = [view EXCEPT ![f] =
                  CASE m.type = "value" -> [@ EXCEPT !.value = m.val]
                    [] m.type = "request" -> [@ EXCEPT !.next = m.time]
                    [] m.type = "bye" -> [@ EXCEPT !.gone = TRUE]]
  /\ inflight' = [inflight EXCEPT ![f] = Tail(@)]
  /\ UNCHANGED << pc, ip, loc, req, granted, slack, published, log, peer_inputs,
                  kinds, nonconv, written, finalized, destroyed, exitCode >>

\* Il_id.getDouble() / Vc_id.getDouble() in the pair: the last value of the
\* peer that the substrate has delivered.
PairGetValue(f) ==
  /\ AtStmt(f, "getValue")
  /\ StepDone(f, [loc[f] EXCEPT ![Stmt(f).dst] = view[f].value])
  /\ Logged(f, "getValue", Stmt(f).sub, "ok")
  /\ UNCHANGED << req, granted, slack, published, peer_inputs, kinds, nonconv,
                  finalized, destroyed, exitCode, inflight, view >>

PairInit == InitFor(Integrators)

PairNext ==
  \/ \E f \in Feds : EnterExecutingMode(f)
  \/ \E f \in Feds : PublishInitial(f)
  \/ \E f \in Feds : LoopEnter(f)
  \/ \E f \in Feds : LoopExit(f)
  \/ \E f \in Feds : RequestTime(f)
  \/ \E f \in Feds : PairGrant(f)
  \/ \E f \in Feds : Deliver(f)
  \/ \E f \in Feds : PairGetValue(f)
  \/ \E f \in Feds : Integrate(f)
  \/ \E f \in Feds : Publish(f)
  \/ \E f \in Feds : Finalize(f)
  \/ \E f \in Feds : ReturnMain(f)

PairSpec == PairInit /\ [][PairNext]_vars

\* The steps of one federate process.
FedStep(f) ==
  \/ EnterExecutingMode(f) \/ PublishInitial(f) \/ LoopEnter(f) \/ LoopExit(f)
  \/ RequestTime(f) \/ PairGrant(f) \/ PairGetValue(f) \/ Integrate(f)
  \/ Publish(f) \/ Finalize(f) \/ ReturnMain(f)

\* Each federate is a process of its own and runs on whenever it can; the
\* substrate delivers every message and answers a request it can grant.
PairFairSpec ==
  PairSpec /\ \A f \in Integrators : WF_vars(FedStep(f)) /\ WF_vars(Deliver(f))

(***************************************************************************)
(* C14.  In the lc-tank pair the first step of the Inductor reads          *)
(* capacitor_voltage = 0 and leaves its current at 1, and the first step   *)
(* of the Capacitor reads inductor_current = 1 and takes its voltage to    *)
(* 0 + (-1/c_value) * 1 * period, in every interleaving of the two         *)
(* federates and of the message deliveries.                                *)
(***************************************************************************)
C14_FirstStepOfThePair ==
  /\ Len(peer_inputs[Inductor]) >= 1 =>
       /\ peer_inputs[Inductor][1] = PolyZero
       /\ loc[Inductor].current[2] = PolyOne
  /\ Len(peer_inputs[Capacitor]) >= 1 =>
       /\ peer_inputs[Capacitor][1] = PolyOne
       /\ loc[Capacitor].voltage[2] = PolyAdd(PolyZero, <<0, -Period>>)

\* Both federates have taken their first step.
C14_Witness ==
  /\ Len(loc[Inductor].current) >= 2
  /\ Len(loc[Capacitor].voltage) >= 2

(***************************************************************************)
(* C15.  The trajectories the lc-tank pair records do not depend on the    *)
(* interleaving of the two federates' steps and of the message deliveries: *)
(* in every run the k-th recorded current and voltage are the same values, *)
(* those of the recurrence in which the Inductor's step k uses the voltage *)
(* of step k-1 and the Capacitor's step k uses the current of step k, at   *)
(* the times k * period; both federates record every step up to the        *)
(* horizon.                                                                *)
(***************************************************************************)
RECURSIVE RefCurrent(_), RefVoltage(_)
RefCurrent(k) ==
  IF k = 0 THEN PolyOne
  ELSE PolyAdd(RefCurrent(k - 1), InductorDelta(RefVoltage(k - 1)))

RefVoltage(k) ==
  IF k = 0 THEN PolyZero
  ELSE PolyAdd(RefVoltage(k - 1), CapacitorDelta(RefCurrent(k)))

C15_TrajectoriesIndependentOfTiming ==
  /\ \A k \in 1..Len(loc[Inductor].current) :
       /\ loc[Inductor].current[k] = RefCurrent(k - 1)
       /\ loc[Inductor].time_sim[k] = (k - 1) * Period
  /\ \A k \in 1..Len(loc[Capacitor].voltage) :
       /\ loc[Capacitor].voltage[k] = RefVoltage(k - 1)
       /\ loc[Capacitor].time_sim[k] = (k - 1) * Period
  /\ \A f \in Feds :
       LoopLeft(f) => Len(StateVec(f)) = NSteps + 1 /\ Len(loc[f].time_sim) = NSteps + 1

\* Both federates have run to their normal end with their trajectories
\* recorded, the second step having moved the current off its seed.
C15_Witness ==
  /\ \A f \in Feds : NormalExit(f) /\ Len(StateVec(f)) = NSteps + 1
  /\ Feds = Integrators
  /\ loc[Inductor].current[3] # PolyOne

CompletedSteps(f) == Cardinality({r \in ReqCalls(f) : SegComplete(f, r)})

\* delta_v / delta_i of the step that used the peer value input.
StepDelta(f, input) ==
  IF f = Capacitor THEN CapacitorDelta(input) ELSE InductorDelta(input)

StepLogShape(f) ==
  /\ Len(loc[f].time_sim) = Len(StateVec(f))
  /\ Len(StateVec(f)) = Len(peer_inputs[f]) + 1
  /\ CompletedSteps(f) <= Len(peer_inputs[f])
  /\ Len(peer_inputs[f]) <= CompletedSteps(f) + 1
  /\ pc[f] \in {"test", "finalize", "return"} \/ NormalExit(f)
       => Len(StateVec(f)) = CompletedSteps(f) + 1
  /\ loc[f].time_sim[1] = 0
  /\ \A k \in 1..Len(peer_inputs[f]) :
       StateVec(f)[k + 1] = PolyAdd(StateVec(f)[k], StepDelta(f, peer_inputs[f][k]))

StepLogAppends(f) ==
  /\ Len(StateVec(f)') \in {Len(StateVec(f)), Len(StateVec(f)) + 1}
  /\ SubSeq(StateVec(f)', 1, Len(StateVec(f))) = StateVec(f)
  /\ Len(loc'[f].time_sim) \in {Len(loc[f].time_sim), Len(loc[f].time_sim) + 1}
  /\ SubSeq(loc'[f].time_sim, 1, Len(loc[f].time_sim)) = loc[f].time_sim

C18_StepLogAppendOnly ==
  /\ [](\A f \in Feds \cap Integrators : StepLogShape(f))
  /\ [][\A f \in Feds \cap Integrators : StepLogAppends(f)]_vars

\* An integration federate has completed two steps.
C18_Witness ==
  \E f \in Feds \cap Integrators :
    /\ pc[f] = "test"
    /\ CompletedSteps(f) = 2
    /\ Len(StateVec(f)) = 3

(***************************************************************************)
(* C19.  The lc-tank pair never deadlocks: whenever a federate is blocked  *)
(* in requestTime, a pending request can be granted, or the other federate *)
(* can still run, or a message is still on its way; and both federates     *)
(* eventually reach the horizon, finalize and return 0.                    *)
(***************************************************************************)
Blocked(f) == pc[f] = "body" /\ req[f] # NoReq

Running(f) == pc[f] # "done" /\ ~Blocked(f)

PairCanMove ==
  \/ \E f \in Feds : CanGrant(f)
  \/ \E f \in Feds : Running(f)
  \/ \E f \in Feds : inflight[f] # << >>

PairFinished ==
  \A f \in Feds :
    NormalExit(f) /\ finalized[f] /\ loc[f].grantedtime >= total_interval

=============================================================================
